---------------------------- MODULE Spec2Model ----------------------------
(***************************************************************************)
(* Rotating IPv6 forward proxy (twitter-bot-python/ipv6_rotate_proxy.py).  *)
(*                                                                         *)
(* One Session = one run of handle_client on an accepted connection.       *)
(* Byte strings are modelled as sequences of tokens (short strings); the   *)
(* conversions of the code (decode, strip, split, upper, lower, rstrip,    *)
(* urlparse, encode) act token by token.  Every write() on a stream writer *)
(* appends one chunk (a token sequence) to that writer's log.              *)
(***************************************************************************)
EXTENDS Integers, Sequences, FiniteSets, TLC

\* ------------------------------------------------------------------ bounds
MaxHeaders == 1     \* header lines read per Session
MaxCand    == 2     \* AAAA candidates getaddrinfo returns
MaxChunks  == 2     \* data chunks each peer delivers during relay

\* The Listener accepts at most MaxSessions connections.
MaxSessions == 2

\* ------------------------------------------------------ generic sequences
Last(s) == s[Len(s)]

Front(s) == SubSeq(s, 1, Len(s) - 1)

Contains(s, t) == \E i \in 1..Len(s) : s[i] = t

\* str.find(t, start): least index >= start holding t, 0 when there is none
\* (indices are 1-based; Python's -1 is 0 here).
FindFrom(s, t, start) ==
    IF \E i \in start..Len(s) : s[i] = t
    THEN CHOOSE i \in start..Len(s) : s[i] = t /\ \A j \in start..(i - 1) : s[j] # t
    ELSE 0

Find(s, t) == FindFrom(s, t, 1)

\* str.rfind(t): greatest index holding t, 0 when there is none.
RFind(s, t) ==
    IF Contains(s, t)
    THEN CHOOSE i \in 1..Len(s) : s[i] = t /\ \A j \in (i + 1)..Len(s) : s[j] # t
    ELSE 0

StartsWith(s, p) == Len(p) <= Len(s) /\ SubSeq(s, 1, Len(p)) = p

RECURSIVE Flatten(_)
Flatten(ss) == IF ss = <<>> THEN <<>> ELSE Head(ss) \o Flatten(Tail(ss))

\* ------------------------------------------------------------ text tokens
Whitespace == {" ", "\t", "\r\n", "\n", "\r"}

LineEnds == {"\r\n", "\n", "\r"}

\* bytes.decode('utf-8', errors='replace'): a byte that is no valid UTF-8
\* becomes U+FFFD; everything else decodes to itself.
DecodeTok(t) == IF t = "<E9>" THEN "<U+FFFD>" ELSE t

decode(bytes) == [i \in 1..Len(bytes) |-> DecodeTok(bytes[i])]

\* str.encode('utf-8', errors='replace'): U+FFFD is encoded as EF BF BD.
EncodeTok(t) == IF t = "<U+FFFD>" THEN "<EF BF BD>" ELSE t

encode(text) == [i \in 1..Len(text) |-> EncodeTok(text[i])]

\* str.upper() / str.lower() on the tokens that carry letters in the samples.
UpperTok(t) ==
    CASE t = "get"     -> "GET"
      [] t = "connect" -> "CONNECT"
      [] OTHER         -> t

upper(s) == [i \in 1..Len(s) |-> UpperTok(s[i])]

LowerTok(t) ==
    CASE t = "Example.COM" -> "example.com"
      [] t = "Proxy-"      -> "proxy-"
      [] t = "PROXY-"      -> "proxy-"
      [] t = "Connection"  -> "connection"
      [] t = "Auth"        -> "auth"
      [] t = "AUTH"        -> "auth"
      [] t = "ORIZATION"   -> "orization"
      [] t = "Host"        -> "host"
      [] t = "X-Name"      -> "x-name"
      [] t = " Basic x"    -> " basic x"
      [] t = " Basic"      -> " basic"
      [] OTHER             -> t

lower(s) == [i \in 1..Len(s) |-> LowerTok(s[i])]

\* str.strip(): drop leading and trailing whitespace.
RECURSIVE LStrip(_)
LStrip(s) == IF s # <<>> /\ Head(s) \in Whitespace THEN LStrip(Tail(s)) ELSE s

RECURSIVE RStripSet(_, _)
RStripSet(s, set) ==
    IF s # <<>> /\ Last(s) \in set THEN RStripSet(Front(s), set) ELSE s

strip(s) == RStripSet(LStrip(s), Whitespace)

\* str.rstrip('\r\n')
rstrip_crlf(s) == RStripSet(s, LineEnds)

\* str.split(): the maximal runs of non-whitespace, in order.
RECURSIVE SplitAcc(_, _, _)
SplitAcc(s, cur, acc) ==
    IF s = <<>>
    THEN IF cur = <<>> THEN acc ELSE Append(acc, cur)
    ELSE IF Head(s) \in Whitespace
         THEN SplitAcc(Tail(s), <<>>, IF cur = <<>> THEN acc ELSE Append(acc, cur))
         ELSE SplitAcc(Tail(s), Append(cur, Head(s)), acc)

split(s) == SplitAcc(s, <<>>, <<>>)

\* ------------------------------------------------------------- numbers
\* str.isdigit() and int() on the port tokens of the samples.
IsDigitTok(t) == t \in {"0", "80", "443", "8080"}

IntOfTok(t) ==
    CASE t = "0"    -> 0
      [] t = "80"   -> 80
      [] t = "443"  -> 443
      [] t = "8080" -> 8080

\* int(s): the value, or a ValueError.
int(s) ==
    IF Len(s) = 1 /\ IsDigitTok(s[1])
    THEN [err |-> FALSE, val |-> IntOfTok(s[1])]
    ELSE [err |-> TRUE, val |-> 0]

\* ------------------------------------------------- urllib.parse.urlparse
\* Tokens made only of scheme characters (letters, digits, "+", "-", ".").
IsSchemeTok(t) ==
    t \in {"http", "example.com", "Example.COM", "path", "rel", "a",
           "0", "80", "443", "8080", "abc"}

\* s[:i] and s[i+1:] around the first token t; the whole of s and nothing
\* when t does not occur (str.split(t, 1), str.partition(t)).
BeforeTok(s, t) == IF Contains(s, t) THEN SubSeq(s, 1, Find(s, t) - 1) ELSE s

AfterTok(s, t) == IF Contains(s, t) THEN SubSeq(s, Find(s, t) + 1, Len(s)) ELSE <<>>

\* _splitnetloc(url, 2): the netloc ends at the first "/", "?" or "#".
NetlocEnd(url) ==
    IF \E i \in 3..Len(url) : url[i] \in {"/", "?", "#"}
    THEN CHOOSE i \in 3..Len(url) :
            /\ url[i] \in {"/", "?", "#"}
            /\ \A j \in 3..(i - 1) : url[j] \notin {"/", "?", "#"}
    ELSE Len(url) + 1

\* urlsplit, last step: cut the query off at the first "?".
urlsplit_query(scheme, netloc, url, frag) ==
    [scheme |-> scheme, netloc |-> netloc, path |-> BeforeTok(url, "?"),
     query |-> AfterTok(url, "?"), fragment |-> frag]

\* urlsplit: cut the fragment off at the first "#".
urlsplit_fragment(scheme, netloc, url) ==
    urlsplit_query(scheme, netloc, BeforeTok(url, "#"), AfterTok(url, "#"))

\* urlsplit: a url that starts with "//" has a netloc.
HasNetloc(url) == Len(url) >= 2 /\ url[1] = "/" /\ url[2] = "/"

urlsplit_netloc(scheme, url) ==
    urlsplit_fragment(scheme,
                      IF HasNetloc(url) THEN SubSeq(url, 3, NetlocEnd(url) - 1) ELSE <<>>,
                      IF HasNetloc(url) THEN SubSeq(url, NetlocEnd(url), Len(url)) ELSE url)

\* urlsplit: the text before the first ":" is the scheme when it is made of
\* scheme characters only.
HasScheme(url) ==
    /\ Find(url, ":") > 1
    /\ \A k \in 1..(Find(url, ":") - 1) : IsSchemeTok(url[k])

urlsplit(url) ==
    urlsplit_netloc(IF HasScheme(url) THEN lower(BeforeTok(url, ":")) ELSE <<>>,
                    IF HasScheme(url) THEN AfterTok(url, ":") ELSE url)

\* _splitparams(url): cut at the first ";" of the last path segment.
ParamsAt(url) ==
    IF Contains(url, "/") THEN FindFrom(url, ";", RFind(url, "/")) ELSE Find(url, ";")

splitparams(url) ==
    IF ParamsAt(url) = 0 THEN [path |-> url, params |-> <<>>]
    ELSE [path |-> SubSeq(url, 1, ParamsAt(url) - 1),
          params |-> SubSeq(url, ParamsAt(url) + 1, Len(url))]

uses_params == {<<>>, <<"http">>, <<"https">>, <<"ftp">>}

\* urlparse, after urlsplit: params are split off the path.
urlparse_params(s, sp) ==
    [scheme |-> s.scheme, netloc |-> s.netloc, path |-> sp.path,
     params |-> sp.params, query |-> s.query, fragment |-> s.fragment]

urlparse_split(s) ==
    urlparse_params(s, IF s.scheme \in uses_params /\ Contains(s.path, ";")
                       THEN splitparams(s.path)
                       ELSE [path |-> s.path, params |-> <<>>])

urlparse(url) == urlparse_split(urlsplit(url))

\* ParseResult._hostinfo (no bracketed hosts among the samples).
hostinfo_of(hi) == [hostname |-> BeforeTok(hi, ":"), port |-> AfterTok(hi, ":")]

hostinfo(netloc) == hostinfo_of(SubSeq(netloc, RFind(netloc, "@") + 1, Len(netloc)))

\* ParseResult.hostname: lower-cased, <<>> standing for None.
hostname(parsed) == lower(hostinfo(parsed.netloc).hostname)

\* ParseResult.port: None, an integer in 0..65535, or a ValueError.
port_of(p) ==
    IF p = <<>> THEN [kind |-> "none", val |-> 0]
    ELSE IF int(p).err \/ int(p).val > 65535 THEN [kind |-> "error", val |-> 0]
    ELSE [kind |-> "int", val |-> int(p).val]

portof(parsed) == port_of(hostinfo(parsed.netloc).port)

\* ------------------------------------------------------ client samples
\* Request lines a client may send, as readline() returns them.
RequestLines ==
    { <<"GET", " ", "http", ":", "/", "/", "example.com", "/", "path", "?", "q=1",
        " ", "HTTP/1.1", "\r\n">>,
      <<"get", " ", "http", ":", "/", "/", "Example.COM", " ", "HTTP/1.1", "\r\n">>,
      <<"POST", " ", "http", ":", "/", "/", "example.com", ":", "8080", "/", "a",
        ";", "b=1", "?", "q=1", " ", "HTTP/1.0", "\r\n">>,
      <<"GET", " ", "http", ":", "/", "/", "example.com", ":", "abc", "/",
        " ", "HTTP/1.1", "\r\n">>,
      <<"connect", " ", "[", ":", ":", "1]", ":", "8080", " ", "HTTP/1.1", "\r\n">>,
      <<"CONNECT", " ", "example.com", " ", "HTTP/1.1", "\n">>,
      <<"CONNECT", " ", "example.com", ":", "abc", " ", "HTTP/1.1", "\r\n">>,
      <<"GET", " ", "/", "\r\n">>,
      <<"\r\n">> }

\* Header lines a client may send, as readline() returns them.
HeaderLines ==
    { <<"Proxy-", "Connection", ":", " keep-alive", "\r\n">>,
      <<"PROXY-", "AUTH", "ORIZATION", ":", " Basic x", "\n">>,
      <<"Proxy-", "Auth", "enticate", ":", " Basic", "\r\n">>,
      <<"X-Name", ":", " caf", "<E9>", "\r\n">> }

\* The lines that end the header block (line 182).
BlankLines == { <<"\r\n">>, <<"\n">> }

\* ------------------------------------------------------- handle_client
\* Lines 169-170: the whitespace-separated parts of the request line.
RequestParts(first_line) == split(strip(decode(first_line)))

\* Mutant of StoredHeader: the line ending is kept.
StoredHeaderKeepsEnding(h) == decode(h)

\* Line 184: a header line as stored in header_lines.
StoredHeader(h) == rstrip_crlf(decode(h))

\* Mutant of ConnectTarget: the target is split on its first colon.
ConnectTargetFirstColon(tgt) ==
    IF Contains(tgt, ":")
    THEN [err  |-> int(SubSeq(tgt, Find(tgt, ":") + 1, Len(tgt))).err,
          host |-> SubSeq(tgt, 1, Find(tgt, ":") - 1),
          port |-> int(SubSeq(tgt, Find(tgt, ":") + 1, Len(tgt))).val,
          path |-> <<>>]
    ELSE [err |-> FALSE, host |-> tgt, port |-> 443, path |-> <<>>]

\* Lines 187-191: host and port of a CONNECT target.
ConnectTarget(tgt) ==
    IF Contains(tgt, ":")
    THEN [err  |-> int(SubSeq(tgt, RFind(tgt, ":") + 1, Len(tgt))).err,
          host |-> SubSeq(tgt, 1, RFind(tgt, ":") - 1),
          port |-> int(SubSeq(tgt, RFind(tgt, ":") + 1, Len(tgt))).val,
          path |-> <<>>]
    ELSE [err |-> FALSE, host |-> tgt, port |-> 443, path |-> <<>>]

\* --------------------------------------------------------- handle_http
\* Lines 130-135: host, port and origin-form path of the request target.
HttpTargetOf(parsed, pt) ==
    [err  |-> pt.kind = "error",
     host |-> hostname(parsed),
     port |-> IF pt.kind = "int" /\ pt.val # 0 THEN pt.val ELSE 80,
     path |-> (IF parsed.path = <<>> THEN <<"/">> ELSE parsed.path)
              \o (IF parsed.query # <<>> THEN <<"?">> \o parsed.query ELSE <<>>)]

HttpTargetParsed(parsed) == HttpTargetOf(parsed, portof(parsed))

HttpTarget(url) == HttpTargetParsed(urlparse(url))

\* Mutant of IsHopHeader: the comparison without lower().
IsHopHeaderCaseSensitive(h) ==
    \/ StartsWith(h, <<"proxy-", "connection">>)
    \/ StartsWith(h, <<"proxy-", "auth">>)

\* Line 151: the headers the loop skips.
IsHopHeader(h) ==
    \/ StartsWith(lower(h), <<"proxy-", "connection">>)
    \/ StartsWith(lower(h), <<"proxy-", "auth">>)

\* Lines 149-153: the header lines appended to the request, in order.
ForwardedHeaders(hdrs) == SelectSeq(hdrs, LAMBDA h : ~IsHopHeader(h))

\* Lines 148-155: the bytes written to the upstream before relaying.
HeaderText(fwd) == Flatten([i \in 1..Len(fwd) |-> fwd[i] \o <<"\r\n">>])

RequestHead(m, p, v, hdrs) ==
    encode(m \o <<" ">> \o p \o <<" ">> \o v \o <<"\r\n">>
           \o HeaderText(ForwardedHeaders(hdrs)) \o <<"\r\n">>)

\* Lines 113, 118, 141: the two responses the proxy itself generates.
Resp200 == <<"HTTP/1.1 200 Connection Established", "\r\n", "\r\n">>

Resp502 == <<"HTTP/1.1 502 Bad Gateway", "\r\n", "\r\n">>

\* ----------------------------------------------------------- rand_ipv6
IPV6_PREFIX == "2a13:4ac0:20:16"

HexDigits == <<"0", "1", "2", "3", "4", "5", "6", "7",
               "8", "9", "a", "b", "c", "d", "e", "f">>

\* The 64-bit values getrandbits(64) may return, written as 16 hexadecimal
\* digits (values 0..15), most significant first.
RandBits ==
    { [i \in 1..16 |-> IF i = 16 THEN 1 ELSE 0],
      [i \in 1..16 |-> IF i <= 4 THEN 15 ELSE i - 4] }

\* Mutant of Group04x: the shifts taken in the opposite order.
Group04xLowFirst(b, g) == [k \in 1..4 |-> HexDigits[b[4 * (4 - g) + k] + 1]]

\* f'{(b >> sh) & 0xFFFF:04x}' for sh = 48, 32, 16, 0 (group g = 1, 2, 3, 4).
Group04x(b, g) == [k \in 1..4 |-> HexDigits[b[4 * (g - 1) + k] + 1]]

rand_ipv6(b) ==
    <<IPV6_PREFIX>> \o <<":">> \o Group04x(b, 1) \o <<":">> \o Group04x(b, 2)
                    \o <<":">> \o Group04x(b, 3) \o <<":">> \o Group04x(b, 4)

V4Label == <<"IPv4-direct">>

\* ------------------------------------------------------------------ state
VARIABLES
    pc,            \* where handle_client (and the handler it awaits) stands
    method,        \* parts[0].upper()
    target,        \* parts[1]
    version,       \* parts[2]
    header_lines,  \* the stored header lines
    raw_headers,   \* the header lines as the client sent them (history)
    host,          \* target host handed to open_remote
    port,          \* target port handed to open_remote
    path,          \* handle_http: origin-form path (+ query)
    clientEOF,     \* client_r has returned EOF
    clientSock,    \* client transport: "open" | "closed" (is_closing())
    clientOut,     \* chunks passed to client_w.write, in order
    clientCloses,  \* calls of client_w.close()
    v6,            \* IPv6 path: "pending" | "resolve_failed" | "no_records"
                   \*            | "trying" | "exhausted" | "connected"
    infos,         \* number of AAAA candidates returned
    cand,          \* index of the candidate being tried
    ipv6,          \* connect_v6: the address generated for this candidate
    randbits,      \* rand_ipv6: b, the 64 bits that address was made from
    rawSock,       \* connect_v6: this candidate's socket, [state, bound]
    tries,         \* connection attempts made so far, per address family
    last,          \* the latest connection attempt and its result, [fam, res]
    via,           \* label returned by open_remote (<<>> before it returns)
    upSock,        \* upstream transport: "none" | "open" | "closed"
    upBound,       \* source address the upstream socket is bound to
    upEOF,         \* remote_r has returned EOF
    upOut,         \* chunks passed to remote_w.write, in order
    upCloses,      \* calls of remote_w.close()
    openSockets,   \* upstream-side OS sockets currently open
    rpc,           \* relay tasks: "idle" | "read" | "drain" | "done"
    nread,         \* chunks each relay task has read
    clientBuffered, \* client_r holds unread bytes sent behind the header block
    closeEvents    \* every close() the proxy made: [sock, by, pending]

\* The server as a whole: the Listener and the Sessions it has spawned, each
\* Session reduced to its stage, its label and its relay tasks.
VARIABLES
    listening,     \* the server of main() is serving
    sessions,      \* per accepted connection: [pc, kind, via, rel]; via is
                   \* open_remote's label until it has been logged
    socks          \* every socket of every Session: [state, out], out being
                   \* the origins of the bytes written to it

vars == <<pc, method, target, version, header_lines, raw_headers, host, port, path,
          clientEOF, clientSock, clientOut, clientCloses,
          v6, infos, cand, ipv6, randbits, rawSock, tries, last, via,
          upSock, upBound, upEOF, upOut, upCloses, openSockets,
          rpc, nread, clientBuffered, closeEvents, listening, sessions, socks>>

sessionVars == <<pc, method, target, version, header_lines, raw_headers, host, port,
                 path, clientEOF, clientSock, clientOut, clientCloses,
                 v6, infos, cand, ipv6, randbits, rawSock, tries, last, via,
                 upSock, upBound, upEOF, upOut, upCloses, openSockets,
                 rpc, nread, clientBuffered, closeEvents>>

serverVars == <<listening, sessions, socks>>

reqVars   == <<method, target, version, header_lines, raw_headers>>
tgtVars   == <<host, port, path>>
connVars  == <<v6, infos, cand, ipv6, randbits, rawSock, tries, last, via, upBound>>
upVars    == <<upSock, upEOF, upOut, upCloses, openSockets>>
relayVars == <<rpc, nread, clientBuffered>>

Dirs == {"c2u", "u2c"}

NoSock == [state |-> "none", bound |-> <<>>]

Sessions == 1..MaxSessions

\* The sockets a Session owns: the accepted one and the one open_remote returns.
SockIds == [s : Sessions, role : {"client", "upstream"}]

ClientOf(s) == [s |-> s, role |-> "client"]

UpstreamOf(s) == [s |-> s, role |-> "upstream"]

NoSession == [pc |-> "idle", kind |-> "none", via |-> <<>>,
              rel |-> [d \in Dirs |-> "idle"]]

\* One more attempt of family fam, with result res.
Attempt(fam, res) ==
    /\ tries' = [tries EXCEPT ![fam] = @ + 1]
    /\ last' = [fam |-> fam, res |-> res]

Init ==
    /\ pc = "first_line"
    /\ method = <<>> /\ target = <<>> /\ version = <<>> /\ header_lines = <<>>
    /\ raw_headers = <<>>
    /\ host = <<>> /\ port = 0 /\ path = <<>>
    /\ clientEOF = FALSE /\ clientSock = "open" /\ clientOut = <<>>
    /\ clientCloses = 0
    /\ v6 = "pending" /\ infos = 0 /\ cand = 0 /\ ipv6 = <<>> /\ randbits = <<>>
    /\ rawSock = NoSock
    /\ tries = [f \in {"v6", "v4"} |-> 0] /\ last = [fam |-> "none", res |-> "none"]
    /\ via = <<>>
    /\ upSock = "none" /\ upBound = <<>> /\ upEOF = FALSE /\ upOut = <<>>
    /\ upCloses = 0 /\ openSockets = 0
    /\ rpc = [d \in Dirs |-> "idle"] /\ nread = [d \in Dirs |-> 0]
    /\ clientBuffered = FALSE
    /\ closeEvents = {}
    /\ listening = TRUE
    /\ sessions = [s \in Sessions |-> NoSession]
    /\ socks = [k \in SockIds |-> [state |-> "none", out |-> {}]]

IsConnect == method = <<"CONNECT">>

\* The relay tasks that have been created and have not returned.
Running == {d \in Dirs : rpc[d] \in {"read", "drain"}}

\* Mutant of HandlerExit: the finally block without writer.close().
HandlerExitNoClose(sockNow) ==
    /\ pc' = "done"
    /\ clientSock' = sockNow
    /\ UNCHANGED <<clientCloses, closeEvents>>

\* Mutant of HandlerExit: the finally block without the is_closing() test.
HandlerExitUnchecked(sockNow) ==
    /\ pc' = "done"
    /\ clientSock' = "closed"
    /\ clientCloses' = clientCloses + 1
    /\ closeEvents' = closeEvents \cup {[sock |-> "client", by |-> "handle_client",
                                          pending |-> Running]}

\* Lines 200-205: handle_client's finally block, entered with the client
\* transport in state sockNow; then the task is over.
HandlerExit(sockNow) ==
    /\ pc' = "done"
    /\ clientSock' = "closed"
    /\ clientCloses' = IF sockNow = "open" THEN clientCloses + 1 ELSE clientCloses
    /\ closeEvents' = IF sockNow = "open"
                      THEN closeEvents \cup {[sock |-> "client", by |-> "handle_client",
                                              pending |-> Running]}
                      ELSE closeEvents

\* ------------------------------------------------- handle_client: parsing
\* Mutant of TakeRequestLine: a short request line is answered, not dropped.
TakeRequestLineAnswering(parts) ==
    IF Len(parts) < 3
    THEN /\ pc' = "reply502"
         /\ UNCHANGED <<reqVars, clientEOF, clientSock, clientCloses, closeEvents>>
    ELSE /\ method' = upper(parts[1])
         /\ target' = parts[2]
         /\ version' = parts[3]
         /\ pc' = "headers"
         /\ UNCHANGED <<header_lines, raw_headers, clientEOF, clientSock,
                        clientCloses, closeEvents>>

\* Lines 171-176: a short request line is dropped; otherwise its parts
\* become method, target and version.
TakeRequestLine(parts) ==
    IF Len(parts) < 3
    THEN /\ HandlerExit("open")
         /\ UNCHANGED <<reqVars, clientEOF>>
    ELSE /\ method' = upper(parts[1])
         /\ target' = parts[2]
         /\ version' = parts[3]
         /\ pc' = "headers"
         /\ UNCHANGED <<header_lines, raw_headers, clientEOF, clientSock,
                        clientCloses, closeEvents>>

\* Lines 166-176: read and split the request line.
ReadFirstLine ==
    /\ UNCHANGED serverVars
    /\ pc = "first_line"
    /\ \/ \* wait_for times out (asyncio.TimeoutError)
          /\ HandlerExit("open")
          /\ UNCHANGED <<reqVars, clientEOF>>
       \/ \* the client closed before sending anything: readline() = b''
          /\ clientEOF' = TRUE
          /\ HandlerExit("open")
          /\ UNCHANGED reqVars
       \/ \* the connection was reset: ConnectionResetError, transport gone
          /\ HandlerExit("closed")
          /\ UNCHANGED <<reqVars, clientEOF>>
       \/ \E line \in RequestLines : TakeRequestLine(RequestParts(line))
    /\ UNCHANGED <<tgtVars, clientOut, connVars, upVars, relayVars>>

\* Lines 180-184: read one line of the header block.
ReadHeader ==
    /\ UNCHANGED serverVars
    /\ pc = "headers"
    /\ \/ \* wait_for times out
          /\ HandlerExit("open")
          /\ UNCHANGED <<header_lines, raw_headers, clientEOF>>
       \/ \* connection reset
          /\ HandlerExit("closed")
          /\ UNCHANGED <<header_lines, raw_headers, clientEOF>>
       \/ \* EOF: readline() = b'' ends the loop
          /\ clientEOF' = TRUE
          /\ pc' = "dispatch"
          /\ UNCHANGED <<header_lines, raw_headers, clientSock, clientCloses,
                         closeEvents>>
       \/ \* an empty line ends the loop
          /\ \E h \in BlankLines : pc' = "dispatch"
          /\ UNCHANGED <<header_lines, raw_headers, clientEOF, clientSock,
                         clientCloses, closeEvents>>
       \/ \* a header line is stored
          /\ Len(header_lines) < MaxHeaders
          /\ \E h \in HeaderLines :
                /\ header_lines' = Append(header_lines, StoredHeader(h))
                /\ raw_headers' = Append(raw_headers, h)
          /\ UNCHANGED <<pc, clientEOF, clientSock, clientCloses, closeEvents>>
    /\ UNCHANGED <<method, target, version, tgtVars, clientOut, connVars, upVars,
                   relayVars>>

\* Mutant of DispatchTo: a target that cannot be worked out is answered
\* with a 502.
DispatchToAnswering(t) ==
    IF t.err
    THEN /\ pc' = "reply502"
         /\ UNCHANGED <<tgtVars, clientSock, clientCloses, closeEvents>>
    ELSE /\ host' = t.host /\ port' = t.port /\ path' = t.path
         /\ pc' = "getaddrinfo"
         /\ UNCHANGED <<clientSock, clientCloses, closeEvents>>

\* Lines 192, 194 and 198: with the target worked out, open_remote is
\* awaited; a ValueError in working it out leaves through line 198.
DispatchTo(t) ==
    IF t.err
    THEN /\ HandlerExit("open")
         /\ UNCHANGED tgtVars
    ELSE /\ host' = t.host /\ port' = t.port /\ path' = t.path
         /\ pc' = "getaddrinfo"
         /\ UNCHANGED <<clientSock, clientCloses, closeEvents>>

\* Lines 186-194 and 130-135: work out host and port; there is no await
\* before open_remote's getaddrinfo.
Dispatch ==
    /\ UNCHANGED serverVars
    /\ pc = "dispatch"
    /\ DispatchTo(IF IsConnect THEN ConnectTarget(target) ELSE HttpTarget(target))
    /\ UNCHANGED <<reqVars, clientEOF, clientOut, connVars, upVars, relayVars>>

\* ------------------------------------------------------------ open_remote
\* Mutant of Connected: CONNECT is not told apart from the other methods.
ConnectedAsPlainHttp == "send_head"

\* Mutant of Connected: after an IPv6 connect the IPv4 connection is opened
\* as well.
ConnectedAlsoOverIPv4 ==
    IF via = <<>> /\ v6 = "trying" THEN "v4_connect"
    ELSE IF IsConnect THEN "reply200" ELSE "send_head"

\* Mutant of Connected: every method is answered like CONNECT.
ConnectedAnswersAll == "reply200"

\* Where the handler goes once open_remote has returned a connection.
Connected == IF IsConnect THEN "reply200" ELSE "send_head"

\* Lines 69-73: resolve the AAAA records.  A resolver error, or an empty
\* list (OSError, line 73), is caught at line 103: connect_v4 runs next.
GetAddrInfo ==
    /\ UNCHANGED serverVars
    /\ pc = "getaddrinfo"
    /\ \/ /\ v6' = "resolve_failed"
          /\ pc' = "v4_connect"
          /\ UNCHANGED <<infos, cand>>
       \/ /\ infos' = 0
          /\ v6' = "no_records"
          /\ pc' = "v4_connect"
          /\ UNCHANGED cand
       \/ \E n \in 1..MaxCand :
             /\ infos' = n
             /\ cand' = 1
             /\ v6' = "trying"
             /\ pc' = "v6_socket"
    /\ UNCHANGED <<reqVars, tgtVars, clientEOF, clientSock, clientOut, clientCloses,
                   ipv6, randbits, rawSock, tries, last, via, upBound, upVars,
                   relayVars,
                   closeEvents>>

\* Mutant of AfterFailedCandidate: no IPv4 fallback once the list is
\* exhausted; the error goes straight to the handler.
AfterFailedCandidateNoFallback ==
    IF cand < infos
    THEN /\ cand' = cand + 1
         /\ infos' = infos
         /\ pc' = "v6_socket"
         /\ v6' = v6
         /\ rawSock' = [state |-> "closed", bound |-> <<>>]
    ELSE /\ cand' = 0
         /\ infos' = 0
         /\ pc' = "reply502"
         /\ v6' = "exhausted"
         /\ rawSock' = NoSock

\* Mutant of AfterFailedCandidate: the first failure ends the candidate
\* loop; the rest of the list is skipped.
AfterFailedCandidateGivesUp ==
    /\ cand' = 0
    /\ infos' = 0
    /\ pc' = "v4_connect"
    /\ v6' = "exhausted"
    /\ rawSock' = NoSock

\* Lines 85-88 and 103: after a failed candidate (its socket closed at
\* line 86), the next one, or connect_v4 when the list is exhausted and
\* connect_v6 has raised (its locals are gone).
AfterFailedCandidate ==
    IF cand < infos
    THEN /\ cand' = cand + 1
         /\ infos' = infos
         /\ pc' = "v6_socket"
         /\ v6' = v6
         /\ rawSock' = [state |-> "closed", bound |-> <<>>]
    ELSE /\ cand' = 0
         /\ infos' = 0
         /\ pc' = "v4_connect"
         /\ v6' = "exhausted"
         /\ rawSock' = NoSock

\* Mutant of V6Label: the label is an address generated anew, not the one
\* the socket was bound to.
V6LabelRegenerated == rand_ipv6(CHOOSE b \in RandBits : rand_ipv6(b) # ipv6)

\* Line 84: the label connect_v6 returns for the candidate that connected.
V6Label == ipv6

\* Lines 77-81: a fresh address, a socket, and the bind to that address.
V6Socket ==
    /\ UNCHANGED serverVars
    /\ pc = "v6_socket"
    /\ \E b \in RandBits :
          /\ \/ \* bind succeeds; sock_connect is awaited next
                /\ randbits' = b
                /\ ipv6' = rand_ipv6(b)
                /\ rawSock' = [state |-> "open", bound |-> rand_ipv6(b)]
                /\ openSockets' = openSockets + 1
                /\ pc' = "v6_connect"
                /\ UNCHANGED <<tries, last, cand, infos, v6>>
             \/ \* bind raises: the socket is closed at line 86
                /\ ipv6' = <<>> /\ randbits' = <<>>
                /\ Attempt("v6", "bind_failed")
                /\ AfterFailedCandidate
                /\ UNCHANGED openSockets
    /\ UNCHANGED <<reqVars, tgtVars, clientEOF, clientSock, clientOut, clientCloses,
                   via, upBound, upSock, upEOF, upOut, upCloses, relayVars,
                   closeEvents>>

\* Mutant of AfterSockClose: the failed attempt's socket is left open.
AfterSockCloseMissing(n) == n

\* Line 86: sock.close() in the except branch; n sockets were open.
AfterSockClose(n) == n - 1

\* Lines 82-87: the connect of this candidate's socket (10 s timeout).
V6Connect ==
    /\ UNCHANGED serverVars
    /\ pc = "v6_connect"
    /\ \/ \* connected: return reader, writer, ipv6
          /\ Attempt("v6", "connected")
          /\ upSock' = "open"
          /\ upBound' = rawSock.bound
          /\ via' = V6Label
          /\ v6' = "connected"
          /\ pc' = Connected
          /\ rawSock' = NoSock /\ ipv6' = <<>> /\ randbits' = <<>>
          /\ cand' = 0 /\ infos' = 0
          /\ UNCHANGED openSockets
       \/ \E r \in {"refused", "timeout"} :
             /\ Attempt("v6", r)
             /\ openSockets' = AfterSockClose(openSockets)
             /\ ipv6' = <<>> /\ randbits' = <<>>
             /\ AfterFailedCandidate
             /\ UNCHANGED <<upSock, upBound, via>>
    /\ UNCHANGED <<reqVars, tgtVars, clientEOF, clientSock, clientOut, clientCloses,
                   upEOF, upOut, upCloses, relayVars, closeEvents>>

\* Lines 91-96 and 104: the IPv4 fallback; its failure leaves open_remote.
V4Connect ==
    /\ UNCHANGED serverVars
    /\ pc = "v4_connect"
    /\ \/ /\ Attempt("v4", "connected")
          /\ upSock' = "open"
          /\ upBound' = <<"default">>
          /\ via' = V4Label
          /\ openSockets' = openSockets + 1
          /\ pc' = Connected
       \/ \E r \in {"refused", "timeout"} :
             /\ Attempt("v4", r)
             /\ pc' = "reply502"
             /\ UNCHANGED <<upSock, upBound, via, openSockets>>
    /\ UNCHANGED <<reqVars, tgtVars, clientEOF, clientSock, clientOut, clientCloses,
                   v6, infos, cand, ipv6, randbits, rawSock, upEOF, upOut, upCloses,
                   relayVars,
                   closeEvents>>

\* Lines 99-104: while open_remote is awaited the client goes on sending;
\* client_r buffers what arrives.
ClientSendsEarly ==
    /\ UNCHANGED serverVars
    /\ pc \in {"getaddrinfo", "v6_connect", "v4_connect"}
    /\ clientSock = "open" /\ ~clientEOF /\ ~clientBuffered
    /\ clientBuffered' = TRUE
    /\ UNCHANGED <<pc, reqVars, tgtVars, clientEOF, clientSock, clientOut,
                   clientCloses, connVars, upVars, rpc, nread, closeEvents>>

\* ------------------------------------------- handle_connect / handle_http
\* Mutant of RelayBuffer: the relay reads from a reader of its own, which
\* starts empty.
RelayBufferFresh(buf) == FALSE

\* Lines 121 and 158: relay is handed client_r itself, the StreamReader the
\* request was read from, with whatever it has buffered.
RelayBuffer(buf) == buf

\* Lines 121-122 and 158-159: both relay tasks are created.
StartRelay ==
    /\ rpc' = [d \in Dirs |-> "read"]
    /\ clientBuffered' = RelayBuffer(clientBuffered)

\* Lines 111-115 and 139-143: answer 502 and return (or drain raises).
Reply502 ==
    /\ UNCHANGED serverVars
    /\ pc = "reply502"
    /\ clientOut' = Append(clientOut, Resp502)
    /\ \/ HandlerExit("open")
       \/ HandlerExit("closed")
    /\ UNCHANGED <<reqVars, tgtVars, clientEOF, connVars, upVars, relayVars>>

\* Mutant of ConnectReply: the answer depends on how the upstream was reached.
ConnectReplyByVia == IF via = V4Label THEN Resp502 ELSE Resp200

\* Line 118: what handle_connect answers once the upstream is connected.
ConnectReply == Resp200

\* Lines 117-122: answer 200, then start relaying; when drain raises, the
\* exception leaves handle_connect with the upstream connection still open.
Reply200 ==
    /\ UNCHANGED serverVars
    /\ pc = "reply200"
    /\ clientOut' = Append(clientOut, ConnectReply)
    /\ \/ /\ StartRelay
          /\ pc' = "gather"
          /\ UNCHANGED <<clientSock, clientCloses, closeEvents>>
       \/ /\ HandlerExit("closed")
          /\ UNCHANGED <<rpc, clientBuffered>>
    /\ UNCHANGED <<reqVars, tgtVars, clientEOF, connVars, upVars, nread>>

\* Lines 148-159: forward the rewritten request head, then start relaying;
\* when drain raises, the upstream connection is lost and the handler ends.
SendHead ==
    /\ UNCHANGED serverVars
    /\ pc = "send_head"
    /\ upOut' = Append(upOut, RequestHead(method, path, version, header_lines))
    /\ \/ /\ StartRelay
          /\ pc' = "gather"
          /\ UNCHANGED <<clientSock, clientCloses, closeEvents, upSock, openSockets>>
       \/ /\ upSock' = "closed"
          /\ openSockets' = openSockets - 1
          /\ HandlerExit("open")
          /\ UNCHANGED <<rpc, clientBuffered>>
    /\ UNCHANGED <<reqVars, tgtVars, clientEOF, clientOut, connVars, upEOF, upCloses,
                   nread>>

\* ------------------------------------------------------------------ relay
\* relay(client_r, remote_w) is direction "c2u", relay(remote_r, client_w)
\* is direction "u2c".
SrcSock(d) == IF d = "c2u" THEN clientSock ELSE upSock

SrcEOF(d) == IF d = "c2u" THEN clientEOF ELSE upEOF

DstSock(d) == IF d = "c2u" THEN upSock ELSE clientSock

\* The reader of direction d has unread bytes.
Buffered(d) == d = "c2u" /\ clientBuffered

\* The n-th chunk the source of direction d delivers.
Chunk(d, n) == <<IF d = "c2u" THEN "client-data" ELSE "upstream-data", ToString(n)>>

\* Mutant of Written: the last byte of what was read is not written.
WrittenTruncated(data) == SubSeq(data, 1, Len(data) - 1)

\* Line 54: what relay passes to writer.write() for the data it read.
Written(data) == data

\* Mutant of RelayCloses: the finally block does not close the writer.
RelayClosesNever(d, dstNow) == FALSE

\* Lines 58-61: does relay's finally block call writer.close()?  dstNow is
\* the state of the writer's transport when the loop is left.
RelayCloses(d, dstNow) == dstNow = "open"

\* One step of relay(d).  srcNow / eofNow / dstNow: the transports after the
\* awaited call; wrote: a chunk was passed to writer.write(); ended: the
\* loop was left (break or exception), so the finally block ran.
RelayEffect(d, srcNow, eofNow, dstNow, wrote, ended) ==
    LET closes == ended /\ RelayCloses(d, dstNow)
        dstEnd == IF closes THEN "closed" ELSE dstNow
        upEnd  == IF d = "c2u" THEN dstEnd ELSE srcNow
        n      == nread[d] + 1
    IN  /\ rpc' = [rpc EXCEPT ![d] = IF ended THEN "done"
                                     ELSE IF wrote THEN "drain" ELSE "read"]
        /\ nread' = IF wrote THEN [nread EXCEPT ![d] = n] ELSE nread
        /\ clientBuffered' = IF wrote /\ d = "c2u" THEN FALSE ELSE clientBuffered
        /\ clientSock' = IF d = "c2u" THEN srcNow ELSE dstEnd
        /\ upSock' = upEnd
        /\ clientEOF' = IF d = "c2u" THEN eofNow ELSE clientEOF
        /\ upEOF' = IF d = "u2c" THEN eofNow ELSE upEOF
        /\ upOut' = IF wrote /\ d = "c2u" THEN Append(upOut, Written(Chunk(d, n)))
                     ELSE upOut
        /\ clientOut' = IF wrote /\ d = "u2c"
                        THEN Append(clientOut, Written(Chunk(d, n)))
                        ELSE clientOut
        /\ upCloses' = IF closes /\ d = "c2u" THEN upCloses + 1 ELSE upCloses
        /\ clientCloses' = IF closes /\ d = "u2c" THEN clientCloses + 1
                           ELSE clientCloses
        /\ openSockets' = IF upSock = "open" /\ upEnd = "closed"
                          THEN openSockets - 1 ELSE openSockets
        /\ closeEvents' =
              IF closes
              THEN closeEvents \cup
                      {[sock |-> IF d = "c2u" THEN "upstream" ELSE "client",
                        by |-> d, pending |-> Running \ {d}]}
              ELSE closeEvents

\* Lines 51-54 (and 56-63 when the loop ends): one read, and the write of
\* what was read.
RelayRead(d) ==
    /\ UNCHANGED serverVars
    /\ rpc[d] = "read"
    /\ \/ \* data arrives, or is buffered already, and is passed to
          \* writer.write()
          /\ \/ SrcSock(d) = "open" /\ ~SrcEOF(d)
             \/ Buffered(d)
          /\ nread[d] < MaxChunks
          /\ RelayEffect(d, SrcSock(d), SrcEOF(d), DstSock(d), TRUE, FALSE)
       \/ \* read() returns b'': the buffer is empty and the peer finished,
          \* or the transport is closed
          /\ ~Buffered(d)
          /\ RelayEffect(d, SrcSock(d), TRUE, DstSock(d), FALSE, TRUE)
       \/ \* read() raises (connection reset, OS error): the transport is gone
          /\ SrcSock(d) = "open"
          /\ RelayEffect(d, "closed", SrcEOF(d), DstSock(d), FALSE, TRUE)
    /\ UNCHANGED <<pc, reqVars, tgtVars, connVars>>

\* Line 55 (and 56-63 when it raises): drain after a write.
RelayDrain(d) ==
    /\ UNCHANGED serverVars
    /\ rpc[d] = "drain"
    /\ \/ /\ DstSock(d) = "open"
          /\ RelayEffect(d, SrcSock(d), SrcEOF(d), "open", FALSE, FALSE)
       \/ \* drain() raises: the writer's transport is closed or gets lost
          RelayEffect(d, SrcSock(d), SrcEOF(d), "closed", FALSE, TRUE)
    /\ UNCHANGED <<pc, reqVars, tgtVars, connVars>>

\* Mutant of GatherReady: return as soon as one relay task is done.
GatherReadyFirst == \E d \in Dirs : rpc[d] = "done"

\* Lines 123 and 160: what gather(t1, t2) waits for.
GatherReady == \A d \in Dirs : rpc[d] = "done"

\* Mutant of Gather: an upstream connection that was lost during the relay
\* is reported to the client with a 502.
GatherAnswers502 ==
    /\ UNCHANGED serverVars
    /\ pc = "gather"
    /\ GatherReady
    /\ clientOut' = IF upSock = "closed" /\ upCloses = 0
                    THEN Append(clientOut, Resp502) ELSE clientOut
    /\ HandlerExit(clientSock)
    /\ UNCHANGED <<reqVars, tgtVars, clientEOF, connVars, upVars, relayVars>>

\* Lines 123 and 160: gather returns once both relay tasks are done; the
\* handler returns and handle_client's finally block runs.
Gather ==
    /\ UNCHANGED serverVars
    /\ pc = "gather"
    /\ GatherReady
    /\ HandlerExit(clientSock)
    /\ UNCHANGED <<reqVars, tgtVars, clientEOF, clientOut, connVars, upVars, relayVars>>

\* ------------------------------------------------------- specification
Next ==
    \/ ReadFirstLine
    \/ ReadHeader
    \/ Dispatch
    \/ GetAddrInfo
    \/ V6Socket
    \/ V6Connect
    \/ V4Connect
    \/ ClientSendsEarly
    \/ Reply502
    \/ Reply200
    \/ SendHead
    \/ \E d \in Dirs : RelayRead(d)
    \/ \E d \in Dirs : RelayDrain(d)
    \/ Gather

Spec == Init /\ [][Next]_vars

\* The awaits of the relay phase that the event loop completes without any
\* further act of a peer: read() on a reader that is at EOF or whose
\* transport is closed returns b'' (line 51), drain() returns or raises
\* (line 55), gather returns once both tasks are done (lines 123, 160).
TunnelStep ==
    \/ \E d \in Dirs : RelayRead(d) /\ (SrcEOF(d) \/ SrcSock(d) = "closed")
    \/ \E d \in Dirs : RelayDrain(d)
    \/ Gather

FairSpec == Spec /\ WF_vars(TunnelStep)

\* ------------------------------------------------- the server: all Sessions
\* main() hands every accepted connection to a handle_client task of its
\* own.  Each task works on the reader and writer it was given and on the
\* locals of its own frames; the tasks interleave at their awaits.  Here a
\* Session is reduced to its stage, and a socket to its state and to the
\* origins of what was written to it.

\* The proxy's own bytes in Session s: "200", "502" or the request "head".
ProxyBytes(s, what) == [from |-> "proxy", s |-> s, what |-> what]

\* What reader.read() returns on socket id: bytes its peer sent.
PeerData(id) == [from |-> id.role, s |-> id.s, what |-> "data"]

\* The socket table sk after writer.write(o) on socket id.
Wrote(sk, id, o) == [sk EXCEPT ![id].out = @ \cup {o}]

\* The socket table sk once socket id is closed or lost.
Closed(sk, id) == [sk EXCEPT ![id].state = IF @ = "none" THEN "none" ELSE "closed"]

\* Mutant of SessionExit: a handler that ends takes the server down with it.
SessionExitFatal(s, sk) ==
    /\ sessions' = [sessions EXCEPT ![s].pc = "done", ![s].via = <<>>]
    /\ socks' = Closed(sk, ClientOf(s))
    /\ listening' = FALSE

\* Lines 196-205: whatever ended the handler is caught, the client writer
\* is closed, the task ends and its locals with it; sk is the socket table
\* the handler leaves.
SessionExit(s, sk) ==
    /\ sessions' = [sessions EXCEPT ![s].pc = "done", ![s].via = <<>>]
    /\ socks' = Closed(sk, ClientOf(s))
    /\ listening' = listening

\* Lines 209-215: the server accepts a connection and starts handle_client
\* on the new socket.
Accept ==
    /\ listening
    /\ \E s \in Sessions :
          /\ sessions[s].pc = "idle"
          /\ \A t \in 1..(s - 1) : sessions[t].pc # "idle"
          /\ sessions' = [sessions EXCEPT ![s].pc = "parse"]
          /\ socks' = [socks EXCEPT ![ClientOf(s)].state = "open"]
    /\ UNCHANGED <<listening, sessionVars>>

\* Lines 166-194: the request is read; EOF, a short line, a timeout, a
\* reset or a bad port end the handler, otherwise open_remote is awaited.
SessionParse(s) ==
    /\ sessions[s].pc = "parse"
    /\ \/ SessionExit(s, socks)
       \/ \E k \in {"CONNECT", "HTTP"} :
             /\ sessions' = [sessions EXCEPT ![s].pc = "connect", ![s].kind = k]
             /\ UNCHANGED <<socks, listening>>
    /\ UNCHANGED sessionVars

\* Lines 84 and 96: open_remote returns a connection and its label.
ConnectedVia(s, label) ==
    /\ sessions' = [sessions EXCEPT ![s].pc = "reply", ![s].via = label]
    /\ socks' = [socks EXCEPT ![UpstreamOf(s)].state = "open"]

\* Lines 99-104: open_remote connects from an address rand_ipv6 draws for
\* this call, or over IPv4, or fails.
SessionConnect(s) ==
    /\ sessions[s].pc = "connect"
    /\ \/ \E b \in RandBits : ConnectedVia(s, rand_ipv6(b))
       \/ ConnectedVia(s, V4Label)
       \/ /\ sessions' = [sessions EXCEPT ![s].pc = "reply502"]
          /\ UNCHANGED socks
    /\ UNCHANGED <<listening, sessionVars>>

\* Lines 111-115 and 139-143: the 502 goes to this handler's client_w.
SessionReply502(s) ==
    /\ sessions[s].pc = "reply502"
    /\ SessionExit(s, Wrote(socks, ClientOf(s), ProxyBytes(s, "502")))
    /\ UNCHANGED sessionVars

\* Lines 118-119 and 155-156: the socket the handler writes to before the
\* relay, client_w for CONNECT and remote_w otherwise.
FirstWriteTo(s) ==
    IF sessions[s].kind = "CONNECT" THEN ClientOf(s) ELSE UpstreamOf(s)

FirstWrite(s) ==
    ProxyBytes(s, IF sessions[s].kind = "CONNECT" THEN "200" ELSE "head")

\* Lines 117-122 and 148-159: the label is logged (its last use), the 200
\* response or the request head is written, then both relay tasks are
\* created; when drain raises, the socket written to is lost and the
\* handler ends.
SessionReply(s) ==
    /\ sessions[s].pc = "reply"
    /\ \/ /\ sessions' = [sessions EXCEPT ![s].pc = "gather", ![s].via = <<>>,
                                           ![s].rel = [d \in Dirs |-> "read"]]
          /\ socks' = Wrote(socks, FirstWriteTo(s), FirstWrite(s))
          /\ UNCHANGED listening
       \/ SessionExit(s, Closed(Wrote(socks, FirstWriteTo(s), FirstWrite(s)),
                                FirstWriteTo(s)))
    /\ UNCHANGED sessionVars

\* Lines 121-122 and 158-159: the reader each relay task of Session s got.
ReaderOf(s, d) == IF d = "c2u" THEN ClientOf(s) ELSE UpstreamOf(s)

\* Mutant of WriterOf: the writer is kept in one place for all Sessions, so
\* it is that of the Session accepted last.
WriterOfShared(s, d) ==
    LET t == CHOOSE x \in Sessions :
                /\ sessions[x].pc # "idle"
                /\ \A y \in Sessions : sessions[y].pc # "idle" => y <= x
    IN  IF d = "c2u" THEN UpstreamOf(t) ELSE ClientOf(t)

\* Lines 121-122 and 158-159: the writer each relay task of Session s got.
WriterOf(s, d) == IF d = "c2u" THEN UpstreamOf(s) ELSE ClientOf(s)

\* The relay task d of Session s has left its loop (lines 56-63).
RelayDone(s, d) == sessions' = [sessions EXCEPT ![s].rel[d] = "done"]

\* Lines 47-63: one turn of the loop of relay task d of Session s.
SessionRelay(s, d) ==
    /\ sessions[s].pc = "gather"
    /\ sessions[s].rel[d] = "read"
    /\ \/ \* data is read, written and drained
          /\ socks[ReaderOf(s, d)].state = "open"
          /\ socks[WriterOf(s, d)].state = "open"
          /\ socks' = Wrote(socks, WriterOf(s, d), PeerData(ReaderOf(s, d)))
          /\ UNCHANGED sessions
       \/ \* data is read and written, drain raises: the writer is gone
          /\ socks[ReaderOf(s, d)].state = "open"
          /\ socks' = Closed(Wrote(socks, WriterOf(s, d), PeerData(ReaderOf(s, d))),
                             WriterOf(s, d))
          /\ RelayDone(s, d)
       \/ \* read() returns b'': the finally block closes the writer
          /\ socks' = Closed(socks, WriterOf(s, d))
          /\ RelayDone(s, d)
       \/ \* read() raises: the reader is gone, the finally block closes the writer
          /\ socks[ReaderOf(s, d)].state = "open"
          /\ socks' = Closed(Closed(socks, ReaderOf(s, d)), WriterOf(s, d))
          /\ RelayDone(s, d)
    /\ UNCHANGED <<listening, sessionVars>>

\* Lines 123 and 160, then 200-205: both relay tasks are done, the handler
\* returns.
SessionGather(s) ==
    /\ sessions[s].pc = "gather"
    /\ \A d \in Dirs : sessions[s].rel[d] = "done"
    /\ SessionExit(s, socks)
    /\ UNCHANGED sessionVars

\* Any step of the handle_client task of Session s.
SessionStep(s) ==
    \/ SessionParse(s)
    \/ SessionConnect(s)
    \/ SessionReply502(s)
    \/ SessionReply(s)
    \/ \E d \in Dirs : SessionRelay(s, d)
    \/ SessionGather(s)

ServerNext ==
    \/ Accept
    \/ \E s \in Sessions : SessionParse(s)
    \/ \E s \in Sessions : SessionConnect(s)
    \/ \E s \in Sessions : SessionReply502(s)
    \/ \E s \in Sessions : SessionReply(s)
    \/ \E s \in Sessions : \E d \in Dirs : SessionRelay(s, d)
    \/ \E s \in Sessions : SessionGather(s)

ServerSpec == Init /\ [][ServerNext]_vars

\* ----------------------------------------------------- rand_ipv6 on its own
\* 16-bit groups getrandbits may put into b, as four hexadecimal digits.
GroupSamples ==
    { <<0, 0, 0, 0>>, <<15, 15, 15, 15>>, <<0, 0, 10, 0>>, <<1, 2, 3, 4>> }

\* Line 37: values of b, every combination of the sample groups.
SampleBits ==
    { [i \in 1..16 |-> g[((i - 1) \div 4) + 1][((i - 1) % 4) + 1]] :
        g \in [1..4 -> GroupSamples] }

\* Lines 35-44: one call of rand_ipv6.
RandIpv6 ==
    /\ \E b \in SampleBits \cup RandBits :
          /\ randbits' = b
          /\ ipv6' = rand_ipv6(b)
    /\ UNCHANGED <<pc, reqVars, tgtVars, clientEOF, clientSock, clientOut,
                   clientCloses, v6, infos, cand, rawSock, tries, last, via,
                   upBound, upVars, relayVars, closeEvents, serverVars>>

AddrSpec == Init /\ [][RandIpv6]_vars

\* ------------------------------------------------- what the claims speak of
Idle == [d \in Dirs |-> "idle"]

ConnectorPcs == {"getaddrinfo", "v6_socket", "v6_connect", "v4_connect"}

V6Failed == {"resolve_failed", "no_records", "exhausted"}

\* The Upstream Connector ended in Failed: the IPv4 attempt failed as well.
ConnectFailed == last.fam = "v4" /\ last.res # "connected"

\* The lines of a request head, each ended by CRLF.
RECURSIVE LinesAcc(_, _, _)
LinesAcc(s, cur, acc) ==
    IF s = <<>> THEN acc
    ELSE IF Head(s) = "\r\n"
         THEN LinesAcc(Tail(s), <<>>, Append(acc, cur))
         ELSE LinesAcc(Tail(s), Append(cur, Head(s)), acc)

HeadLines(head) == LinesAcc(head, <<>>, <<>>)

\* The header block the upstream received: the lines between the request
\* line and the closing empty line.
ForwardedBlock ==
    LET ls == HeadLines(upOut[1]) IN SubSeq(ls, 2, Len(ls) - 1)

\* The field name of a header line, lower-cased.
HeaderName(line) ==
    IF Contains(line, ":") THEN lower(SubSeq(line, 1, Find(line, ":") - 1))
    ELSE lower(line)

HopNames == { <<"proxy-", "connection">>, <<"proxy-", "auth", "orization">> }

\* The HTTP Session has forwarded its request head.
HeadSent == ~IsConnect /\ upOut # <<>>

\* RFC 3986 reading of an absolute URI "http://authority path [?query] [#frag]".
IsAbsoluteURI(url) == StartsWith(url, <<"http", ":", "/", "/">>)

FirstOf(s, set) ==
    IF \E i \in 1..Len(s) : s[i] \in set
    THEN CHOOSE i \in 1..Len(s) : s[i] \in set /\ \A j \in 1..(i - 1) : s[j] \notin set
    ELSE Len(s) + 1

UriRest(url) == SubSeq(url, 5, Len(url))

UriAuthority(url) ==
    SubSeq(UriRest(url), 1, FirstOf(UriRest(url), {"/", "?", "#"}) - 1)

UriAfterAuthority(url) ==
    SubSeq(UriRest(url), Len(UriAuthority(url)) + 1, Len(UriRest(url)))

UriNoFragment(url) ==
    SubSeq(UriAfterAuthority(url), 1, FirstOf(UriAfterAuthority(url), {"#"}) - 1)

UriPath(url) == SubSeq(UriNoFragment(url), 1, FirstOf(UriNoFragment(url), {"?"}) - 1)

UriQuery(url) ==
    SubSeq(UriNoFragment(url), FirstOf(UriNoFragment(url), {"?"}) + 1,
           Len(UriNoFragment(url)))

UriHostPort(url) ==
    SubSeq(UriAuthority(url), RFind(UriAuthority(url), "@") + 1, Len(UriAuthority(url)))

UriHost(url) == SubSeq(UriHostPort(url), 1, FirstOf(UriHostPort(url), {":"}) - 1)

UriPortText(url) ==
    SubSeq(UriHostPort(url), FirstOf(UriHostPort(url), {":"}) + 1, Len(UriHostPort(url)))

\* The origin-form target: the URI's path ("/" when it has none), then "?"
\* and its query when it has one.
OriginForm(url) ==
    (IF UriPath(url) = <<>> THEN <<"/">> ELSE UriPath(url))
    \o (IF UriQuery(url) = <<>> THEN <<>> ELSE <<"?">> \o UriQuery(url))

\* ----------------------------------------------------------------- claims

\* C1: in a CONNECT Session whose Upstream Connector succeeded, the 200
\* response is the first thing written to the client and is written once:
\* while it is not yet written nothing was relayed in either direction and
\* no relay task exists; once anything was relayed or a relay task exists,
\* the first chunk written to the client is exactly the 200 response.
C1_ReplyBeforeRelay ==
    (IsConnect /\ via # <<>>) =>
        /\ pc = "reply200" => (clientOut = <<>> /\ upOut = <<>> /\ rpc = Idle)
        /\ pc # "reply200" => (Len(clientOut) >= 1 /\ clientOut[1] = Resp200)
        /\ (upOut # <<>> \/ rpc # Idle) => (Len(clientOut) >= 1 /\ clientOut[1] = Resp200)
        /\ \A i \in 2..Len(clientOut) : clientOut[i] # Resp200

C1_Witness ==
    /\ IsConnect /\ via # <<>>
    /\ nread["c2u"] >= 1 /\ nread["u2c"] >= 1
    /\ Len(clientOut) >= 2 /\ Len(upOut) >= 1

\* C2: when neither the IPv6 path nor the IPv4 path connected, the only
\* thing ever written to the client is the 502 response, no relay task is
\* created, nothing is written to an upstream (there is none), and when the
\* Session is over the client connection is closed.
C2_FailureGets502 ==
    ConnectFailed =>
        /\ pc \in {"reply502", "done"}
        /\ rpc = Idle
        /\ upOut = <<>> /\ upSock = "none"
        /\ clientOut = (IF pc = "reply502" THEN <<>> ELSE <<Resp502>>)
        /\ pc = "done" => clientSock = "closed"

C2_Witness ==
    /\ ConnectFailed /\ pc = "done" /\ ~IsConnect
    /\ clientOut = <<Resp502>> /\ clientCloses = 1

\* C3: the connector follows TryIPv6 -> Connected, TryIPv6 -> TryIPv4 ->
\* Connected or TryIPv6 -> TryIPv4 -> Failed: at most one IPv4 attempt, made
\* only after the IPv6 path failed (resolver error, no records, or every
\* candidate failed) and never after an IPv6 connect; Failed only after the
\* IPv4 attempt failed; no attempt after Connected or Failed.
C3_ConnectorPaths ==
    /\ tries["v4"] <= 1
    /\ tries["v4"] = 1 => (v6 \in V6Failed /\ last.fam = "v4")
    /\ pc = "v4_connect" => (v6 \in V6Failed /\ tries["v4"] = 0)
    /\ v6 = "connected" => (tries["v4"] = 0 /\ last = [fam |-> "v6", res |-> "connected"])
    /\ v6 = "exhausted" => tries["v6"] >= 1
    /\ v6 \in {"resolve_failed", "no_records"} => tries["v6"] = 0
    /\ pc = "reply502" => ConnectFailed
    /\ (last.res = "connected" \/ last.fam = "v4") => pc \notin ConnectorPcs
    /\ pc \in ConnectorPcs => (via = <<>> /\ upSock = "none")

C3_Witness ==
    /\ v6 = "exhausted" /\ via = V4Label /\ pc = "done"
    /\ tries = [f \in {"v6", "v4"} |-> IF f = "v6" THEN 2 ELSE 1]

\* C4: the label of a connected Session is "IPv4-direct" exactly when the
\* IPv4 fallback made the connection; otherwise it is the source address
\* the connected socket was bound to.
C4_LabelIsBoundAddress ==
    /\ upSock # "none" => via # <<>>
    /\ via # <<>> =>
          /\ (via = V4Label) <=> (last.fam = "v4")
          /\ last.res = "connected"
          /\ via = V4Label => upBound = <<"default">>
          /\ via # V4Label => (via = upBound /\ \E b \in RandBits : via = rand_ipv6(b))

C4_Witness ==
    /\ via # <<>> /\ via # V4Label
    /\ tries["v6"] = 2 /\ tries["v4"] = 0
    /\ pc = "done"

\* C5: what the client sees does not depend on how the upstream was reached:
\* on either path the chunks written to the client are the 200 response (for
\* CONNECT) followed by the upstream's chunks in order, and the client
\* socket is closed, by at most one close(), when the Session is over.
C5_ClientViewIgnoresPath ==
    via # <<>> =>
        /\ clientOut = (IF IsConnect /\ pc # "reply200" THEN <<Resp200>> ELSE <<>>)
                       \o [k \in 1..nread["u2c"] |-> Chunk("u2c", k)]
        /\ pc = "done" => (clientSock = "closed" /\ clientCloses <= 1)

C5_Witness ==
    /\ via = V4Label /\ IsConnect /\ pc = "done"
    /\ Len(clientOut) >= 2

\* C6: for a plain-HTTP request with an absolute-URI target, the request
\* line forwarded upstream is "<method> <path>[?<query>] <version>" with the
\* URI's own path and query ("/" for no path), and the connection goes to
\* the URI's host and port (80 when the URI names none).
C6_OriginFormRewrite ==
    (HeadSent /\ IsAbsoluteURI(target)) =>
        /\ HeadLines(upOut[1])[1]
              = method \o <<" ">> \o OriginForm(target) \o <<" ">> \o version
        /\ host = lower(UriHost(target))
        /\ port = (IF UriPortText(target) = <<>> THEN 80
                   ELSE int(UriPortText(target)).val)

\* C7: no header named Proxy-Connection or Proxy-Authorization, in any
\* letter case, is in the header block forwarded to the upstream.
C7_HopHeadersStripped ==
    HeadSent =>
        \A i \in 1..Len(ForwardedBlock) : HeaderName(ForwardedBlock[i]) \notin HopNames

C7_Witness ==
    /\ HeadSent
    /\ \E i \in 1..Len(raw_headers) : raw_headers[i][1] = "PROXY-"
    /\ pc = "done"

\* C8: the forwarded header block is exactly the received header lines
\* other than Proxy-Connection and Proxy-Authorization, unmodified and in
\* their order, followed by the empty line.
C8_OtherHeadersUnmodified ==
    HeadSent =>
        /\ ForwardedBlock
              = SelectSeq([i \in 1..Len(raw_headers) |-> rstrip_crlf(raw_headers[i])],
                          LAMBDA h : HeaderName(h) \notin HopNames)
        /\ Last(HeadLines(upOut[1])) = <<>>

\* C9: once relaying has started the handler does not return, and the
\* Session does not complete, before both relay tasks have terminated.
C9_WaitsForBothRelays ==
    /\ Running # {} => pc = "gather"
    /\ (pc = "done" /\ rpc # Idle) => \A d \in Dirs : rpc[d] = "done"

C9_Witness ==
    /\ pc = "gather"
    /\ rpc["c2u"] = "done" /\ rpc["u2c"] = "drain"

\* C10: every close() the proxy makes on a socket of a Session happens when
\* no relay task of the Session is still running.
C10_CloseAfterBothRelays ==
    \A e \in closeEvents : e.pending = {}

\* ------------------------------------------ more of what the claims speak of
Other(d) == IF d = "c2u" THEN "u2c" ELSE "c2u"

NoTries == [f \in {"v6", "v4"} |-> 0]

\* The relay task of direction d has called close() on its writer, whose
\* transport is the one the other direction reads from.
ClosedByRelay(d) == \E e \in closeEvents : e.by = d

\* The Session ended while its request was being read or worked out.
DroppedInParsing == pc = "done" /\ host = <<>> /\ v6 = "pending"

\* What the relay of direction d has written to its destination: the
\* destination's log without the proxy's own 200 response or request head.
RelayedTo(d) ==
    IF d = "c2u"
    THEN SubSeq(upOut, (IF IsConnect \/ upOut = <<>> THEN 1 ELSE 2), Len(upOut))
    ELSE SubSeq(clientOut, (IF IsConnect /\ clientOut # <<>> THEN 2 ELSE 1),
                Len(clientOut))

\* The first n chunks the source of direction d delivers.
SourcePrefix(d, n) == [k \in 1..n |-> Chunk(d, k)]

\* The upstream transport was lost to an error (reset, broken pipe, OS
\* error) while the relay tasks existed: it is closed although the proxy
\* never closed it.
UpstreamLostInRelay == rpc # Idle /\ upSock = "closed" /\ upCloses = 0

\* C11: after one relay direction has completed, the other direction ends
\* its loop on a read only because its own source reached EOF or failed,
\* never because the completed direction closed the transport it reads from.
C11_OtherDirectionNotTruncated ==
    [][\A d \in Dirs :
          (rpc[Other(d)] = "done" /\ rpc[d] = "read" /\ rpc'[d] = "done" /\ ~SrcEOF(d))
              => ~ClosedByRelay(Other(d))]_vars

\* C12: when handle_client has finished the client socket is closed, and
\* close() was called on it at most once over the whole Session, by the
\* relay or by the handler but never by both.
C12_ClientClosedOnce ==
    /\ clientCloses <= 1
    /\ clientCloses = Cardinality({e \in closeEvents : e.sock = "client"})
    /\ clientCloses = 1 => clientSock = "closed"
    /\ pc = "done" => clientSock = "closed"

C12_Witness ==
    /\ pc = "done" /\ rpc["u2c"] = "done"
    /\ clientCloses = 1
    /\ \E e \in closeEvents : e.sock = "client" /\ e.by = "u2c"

\* C13: when the handler has finished, no upstream socket the Session
\* established is still open.
C13_UpstreamClosedAtExit ==
    pc = "done" => (upSock # "open" /\ openSockets = 0)

\* C14: a Session that ends while its request line or headers are read (or
\* that is still reading them) has written nothing to the client, has
\* generated no address, has resolved and attempted nothing, has no upstream
\* socket, and once it has ended its client socket is closed.
C14_SilentDrop ==
    (pc \in {"first_line", "headers", "dispatch"} \/ DroppedInParsing) =>
        /\ clientOut = <<>> /\ upOut = <<>>
        /\ v6 = "pending" /\ tries = NoTries /\ last.fam = "none"
        /\ ipv6 = <<>> /\ rawSock = NoSock /\ via = <<>> /\ upBound = <<>>
        /\ upSock = "none" /\ openSockets = 0 /\ rpc = Idle
        /\ pc = "done" => clientSock = "closed"

\* A header read timed out: the target was well formed, a header had been
\* stored, and the handler closed the client itself.
C14_Witness ==
    /\ DroppedInParsing
    /\ IsConnect /\ ~ConnectTarget(target).err
    /\ header_lines # <<>> /\ ~clientEOF
    /\ clientCloses = 1

\* C15: once a connect attempt of the Session has timed out, the Session
\* makes no further connect attempt.
C15_NoAttemptAfterTimeout ==
    [][last.res = "timeout" => tries' = tries]_vars

\* C16: the Session has at most one upstream-side socket at any time; its
\* established upstream socket has a source address from the moment it
\* exists, and from then on that address, the socket and the count of
\* attempts never change, and no further address is generated; an address
\* is generated only while no upstream connection is established.
C16_OneBoundAddress ==
    /\ [](/\ openSockets <= 1
          /\ (upSock = "none") <=> (upBound = <<>>)
          /\ upSock # "none" => (rawSock = NoSock /\ ipv6 = <<>>))
    /\ [][/\ upSock # "none" =>
                /\ upBound' = upBound /\ via' = via
                /\ upSock' # "none"
                /\ tries' = tries /\ ipv6' = ipv6
          /\ ipv6' # ipv6 => upSock = "none"]_vars

C16_Witness ==
    /\ via # <<>> /\ via # V4Label /\ upBound = via
    /\ tries["v6"] = 2
    /\ upSock = "closed" /\ nread["u2c"] >= 1 /\ pc = "done"

\* C19: in each direction, what relay has written to the destination is at
\* every moment exactly the chunks it has read from the source, in order,
\* each once and unchanged; so when the source has reached EOF everything
\* read has been written.
C19_TransparentPipe ==
    via # <<>> => \A d \in Dirs : RelayedTo(d) = SourcePrefix(d, nread[d])

C19_Witness ==
    /\ rpc["c2u"] = "done" /\ clientEOF
    /\ nread["c2u"] >= 2 /\ nread["u2c"] >= 2
    /\ ~IsConnect

\* C20: while and after relaying, also when a transport was lost to an
\* error, the handler only waits in gather or has finished normally; it
\* waits as long as a relay task runs; nothing but the 200 response and the
\* upstream's chunks was written to the client (no 502); and the one
\* successful connect attempt stays the last attempt.
C20_RelayErrorsEndQuietly ==
    rpc # Idle =>
        /\ pc \in {"gather", "done"}
        /\ Running # {} => pc = "gather"
        /\ last.res = "connected" /\ tries[last.fam] >= 1
        /\ \A i \in 1..Len(clientOut) :
              /\ clientOut[i] # Resp502
              /\ clientOut[i] = Resp200 => (i = 1 /\ IsConnect)
        /\ Len(RelayedTo("u2c")) = nread["u2c"]

C20_Witness ==
    /\ UpstreamLostInRelay /\ ~upEOF
    /\ pc = "done" /\ nread["u2c"] >= 1
    /\ clientCloses = 1

\* Everything that belongs to Session s: its task and its two sockets.
SessionView(s) == <<sessions[s], socks[ClientOf(s)], socks[UpstreamOf(s)]>>

Live(s) == sessions[s].pc \notin {"idle", "done"}

\* Session s ended in a failure: dropped while parsing, answered 502, or
\* lost a socket to an error.
Failed(s) ==
    /\ sessions[s].pc = "done"
    /\ \/ sessions[s].kind = "none"
       \/ ProxyBytes(s, "502") \in socks[ClientOf(s)].out
       \/ sessions[s].rel["u2c"] = "done"

\* C17: whatever the Sessions do, the Listener keeps serving and accepts
\* the next connection; every Session that has not ended can take its next
\* step; and the task and the sockets of a Session change only by a step
\* of that Session's own task (or by its being accepted), never by a step,
\* failing or not, of another Session.
C17_FailuresStayLocal ==
    /\ [](/\ listening
          /\ (\E s \in Sessions : sessions[s].pc = "idle") => ENABLED Accept
          /\ \A s \in Sessions : Live(s) => ENABLED SessionStep(s))
    /\ [][\A s \in Sessions :
              SessionView(s)' # SessionView(s) => (SessionStep(s) \/ Accept)]_vars

C17_Witness ==
    /\ Failed(1)
    /\ sessions[2].pc = "gather" /\ sessions[2].kind = "CONNECT"
    /\ PeerData(UpstreamOf(2)) \in socks[ClientOf(2)].out

\* C18: everything written to the client of a Session is that Session's own
\* status line or was read from that Session's own upstream socket;
\* everything written to its upstream is its own request head or was read
\* from its own client; and whatever the other Sessions drew, open_remote
\* can connect this Session from any address rand_ipv6 can return.
C18_StreamsDoNotMix ==
    \A s \in Sessions :
        /\ \A o \in socks[ClientOf(s)].out :
              /\ o.s = s
              /\ \/ o.from = "proxy" /\ o.what \in {"200", "502"}
                 \/ o.from = "upstream"
        /\ \A o \in socks[UpstreamOf(s)].out :
              /\ o.s = s
              /\ \/ o.from = "proxy" /\ o.what = "head"
                 \/ o.from = "client"
        /\ sessions[s].pc = "connect" =>
              \A b \in RandBits :
                  ENABLED (SessionConnect(s) /\ sessions'[s].via = rand_ipv6(b))

C18_Witness ==
    /\ sessions[1].pc = "gather" /\ sessions[1].kind = "CONNECT"
    /\ sessions[1].rel = [d \in Dirs |-> "read"]
    /\ sessions[2].pc = "gather" /\ sessions[2].kind = "CONNECT"
    /\ sessions[2].rel = [d \in Dirs |-> "read"]
    /\ \A s \in {1, 2} :
          /\ PeerData(UpstreamOf(s)) \in socks[ClientOf(s)].out
          /\ PeerData(ClientOf(s)) \in socks[UpstreamOf(s)].out

\* ------------------------------------------------------------- rand_ipv6
\* The number a hexadecimal digit stands for.
HexVal(t) == CHOOSE v \in 0..15 : HexDigits[v + 1] = t

\* Bits 63-16(g-1) .. 48-16(g-1) of b as a number: (b >> sh) & 0xFFFF.
GroupBits(b, g) ==
    4096 * b[4 * g - 3] + 256 * b[4 * g - 2] + 16 * b[4 * g - 1] + b[4 * g]

\* The number the g-th low group of address a spells in hexadecimal.
GroupSpelled(a, g) ==
    4096 * HexVal(a[5 * g - 2]) + 256 * HexVal(a[5 * g - 1])
        + 16 * HexVal(a[5 * g]) + HexVal(a[5 * g + 1])

\* C21: an address rand_ipv6 made from b is the configured prefix, then
\* four groups of exactly four hexadecimal digits, each after a colon, the
\* groups spelling bits 63..48, 47..32, 31..16 and 15..0 of b in this order;
\* no other b gives the same address.
C21_AddressFromBits ==
    ipv6 # <<>> =>
        /\ Len(ipv6) = 21
        /\ ipv6[1] = IPV6_PREFIX
        /\ \A g \in 1..4 :
              /\ ipv6[5 * g - 3] = ":"
              /\ \A k \in 0..3 : \E v \in 0..15 : ipv6[5 * g - 2 + k] = HexDigits[v + 1]
              /\ GroupSpelled(ipv6, g) = GroupBits(randbits, g)
        /\ \A b \in SampleBits \cup RandBits : rand_ipv6(b) = ipv6 => b = randbits

\* An address whose groups need zero padding and differ from one another.
C21_Witness ==
    /\ ipv6 # <<>>
    /\ GroupBits(randbits, 1) = 160 /\ GroupBits(randbits, 2) = 0
    /\ GroupBits(randbits, 3) = 65535 /\ GroupBits(randbits, 4) = 4660

\* ---------------------------------------------------------------- tunnel
\* During the relay a side has closed (EOF) or a socket is closed or lost.
SideClosed ==
    rpc # Idle /\ (clientEOF \/ upEOF \/ clientSock = "closed" \/ upSock = "closed")

\* C22: while no side has closed, both relay tasks keep running and the
\* handler waits; the first relay task to end does so in a step in which a
\* peer's EOF is read or a socket is lost to an error, never on the proxy's
\* own account; and once a side has closed, the Session eventually ends
\* with the client and the upstream socket closed.
C22_TunnelLivesUntilASideCloses ==
    /\ []((rpc # Idle /\ ~SideClosed) => (Running = Dirs /\ pc = "gather"))
    /\ [][(Running = Dirs /\ ~SideClosed /\ Running' # Dirs) =>
              \/ clientEOF' \/ upEOF'
              \/ clientSock' = "closed" /\ clientCloses' = 0
              \/ upSock' = "closed" /\ upCloses' = 0]_vars
    /\ SideClosed ~> (pc = "done" /\ clientSock = "closed" /\ upSock = "closed")

\* The upstream has sent all it had and reached EOF while the client is
\* still connected and has sent nothing more.
C22_Witness ==
    /\ pc = "gather" /\ upEOF /\ ~clientEOF
    /\ nread["u2c"] >= 2
    /\ rpc["c2u"] = "read" /\ rpc["u2c"] = "done"

\* -------------------------------------------------------- CONNECT target
HasColon(t) == \E i \in 1..Len(t) : t[i] = ":"

LastColon(t) ==
    CHOOSE i \in 1..Len(t) : t[i] = ":" /\ \A j \in (i + 1)..Len(t) : t[j] # ":"

\* The decimal numbers among the samples' tokens.
Decimal(t) ==
    CASE t = "0" -> 0 [] t = "80" -> 80 [] t = "443" -> 443 [] t = "8080" -> 8080
      [] OTHER -> -1

\* The text after the last colon is a decimal number.
NumericPort(t) == LastColon(t) = Len(t) - 1 /\ Decimal(t[Len(t)]) >= 0

\* The host and the port the claim gives a CONNECT target.
SplitHost(t) == IF HasColon(t) THEN SubSeq(t, 1, LastColon(t) - 1) ELSE t

SplitPort(t) == IF HasColon(t) THEN Decimal(t[Len(t)]) ELSE 443

\* open_remote has been called.
ConnectorEntered == pc = "getaddrinfo" \/ v6 # "pending"

\* C25: a CONNECT target with a number after its last colon, or without a
\* colon, is taken to open_remote as the text before the last colon and
\* that number, or as the whole target and 443; and open_remote is never
\* called for a CONNECT Session with any other host or port.
C25_ConnectTargetSplit ==
    IsConnect =>
        /\ (pc = "dispatch" /\ (HasColon(target) => NumericPort(target))) =>
              ENABLED (/\ Dispatch
                       /\ pc' = "getaddrinfo"
                       /\ host' = SplitHost(target)
                       /\ port' = SplitPort(target))
        /\ ConnectorEntered => (host = SplitHost(target) /\ port = SplitPort(target))

\* A target with more than one colon has reached the connector.
C25_Witness ==
    /\ IsConnect /\ ConnectorEntered
    /\ Cardinality({i \in 1..Len(target) : target[i] = ":"}) = 3
    /\ host = <<"[", ":", ":", "1]">> /\ port = 8080
    /\ via # <<>>

\* ------------------------------------------------------- candidate loop
InCandidateLoop == pc \in {"v6_socket", "v6_connect"}

Parsing == pc \in {"first_line", "headers", "dispatch"}

\* A connection attempt has been started (bind or connect).
AttemptStarted == tries # NoTries \/ pc = "v6_connect"

\* C24: a Session parses only before any address is selected, selects a
\* source address (line 77) only before any connection attempt has been
\* started, and attempts connections only before any relayed byte is read.
C24_StagesInStrictOrder ==
    /\ [](Parsing => (ipv6 = <<>> /\ ~AttemptStarted /\ rpc = Idle))
    /\ [][/\ pc = "v6_socket" => ~AttemptStarted
          /\ tries' # tries => (rpc = Idle /\ \A d \in Dirs : nread[d] = 0)]_vars

\* ----------------------------------------------------------- status lines
\* The writes to the client that start with a status line of the proxy.
StatusWrites(line) == {i \in 1..Len(clientOut) : clientOut[i][1] = line}

Writes200 == StatusWrites("HTTP/1.1 200 Connection Established")

Writes502 == StatusWrites("HTTP/1.1 502 Bad Gateway")

\* C26: the proxy writes at most one status line of its own to the client;
\* a 200 only as the first write of a CONNECT Session whose upstream
\* connected, a 502 only as the first write of a Session whose last connect
\* attempt failed and which has no upstream; and a plain-HTTP Session whose
\* upstream connected gets none.
C26_OneStatusLine ==
    /\ Cardinality(Writes200 \cup Writes502) <= 1
    /\ Writes200 # {} =>
          (Writes200 = {1} /\ IsConnect /\ via # <<>> /\ last.res = "connected")
    /\ Writes502 # {} =>
          /\ Writes502 = {1} /\ Len(clientOut) = 1
          /\ via = <<>> /\ upSock = "none"
          /\ last.fam = "v4" /\ last.res \in {"refused", "timeout"}
    /\ (~IsConnect /\ via # <<>>) => (Writes200 \cup Writes502) = {}

\* A tunnel that has relayed upstream data after its 200 response.
C26_Witness ==
    /\ IsConnect /\ Writes200 = {1}
    /\ Len(clientOut) = 3 /\ pc = "done"

\* ------------------------------------------------------- upstream sockets
\* C27: the Session never has more than one open upstream-side socket, and
\* has none whenever the next candidate's socket is about to be created or
\* the IPv4 connection is about to be opened; an attempt that fails leaves
\* no open socket behind.
C27_FailedAttemptsLeaveNoSocket ==
    /\ [](/\ openSockets \in {0, 1}
          /\ pc \in {"v6_socket", "v4_connect"} =>
                (openSockets = 0 /\ rawSock.state # "open")
          /\ (pc = "v6_connect") => (openSockets = 1 /\ rawSock.state = "open"))
    /\ [][(tries'["v6"] # tries["v6"] /\ last'.res # "connected") =>
              (openSockets' = 0 /\ rawSock'.state # "open")]_vars

\* The IPv4 fallback is about to start after two failed candidates, the last
\* one a connect timeout.
C27_Witness ==
    /\ pc = "v4_connect" /\ tries["v6"] = 2
    /\ last = [fam |-> "v6", res |-> "timeout"]
    /\ openSockets = 0

\* -------------------------------------------------- head and early bytes
\* The client's bytes behind its header block, as the chunks read from them.
ClientStream(n) == [k \in 1..n |-> <<"client-data", ToString(k)>>]

\* The writes to the upstream that are the rewritten request head.
HeadWrites ==
    {i \in 1..Len(upOut) : upOut[i] = RequestHead(method, path, version, header_lines)}

\* C28: the upstream is written to only once it is connected; in a
\* plain-HTTP Session its first write is the rewritten request head, written
\* once and before any byte is relayed in either direction, and what follows
\* is the client's bytes in their order; in a CONNECT Session the upstream
\* gets the client's bytes in their order and only after the 200 response
\* was written.  Bytes that arrived before the relay started stay in the
\* reader until the relay's read returns them: they are written to the
\* upstream as the first chunk behind the head, and the relay leaves them
\* unread only when reading the client socket fails.
C28_HeadThenEarlyBytes ==
    /\ [](/\ upOut # <<>> => via # <<>>
          /\ (rpc = Idle /\ pc # "done") =>
                (nread = [d \in Dirs |-> 0] /\ upOut = <<>> /\ clientOut = <<>>)
          /\ (~IsConnect /\ (upOut # <<>> \/ rpc # Idle)) =>
                /\ HeadWrites = {1}
                /\ upOut = <<upOut[1]>> \o ClientStream(Len(upOut) - 1)
          /\ (IsConnect /\ upOut # <<>>) =>
                /\ upOut = ClientStream(Len(upOut))
                /\ clientOut # <<>>
                /\ clientOut[1][1] = "HTTP/1.1 200 Connection Established"
          /\ (clientBuffered /\ rpc # Idle) => nread["c2u"] = 0)
    /\ [][/\ (clientBuffered /\ ~clientBuffered') =>
                /\ upOut' = Append(upOut, <<"client-data", "1">>)
                /\ Len(upOut) = (IF IsConnect THEN 0 ELSE 1)
          /\ (clientBuffered /\ rpc["c2u"] = "read" /\ rpc'["c2u"] # "read") =>
                \/ ~clientBuffered' /\ rpc'["c2u"] = "drain"
                \/ clientSock = "open" /\ clientSock' = "closed"
                      /\ clientCloses' = clientCloses]_vars

\* A request body that arrived while the upstream was being connected is
\* still in the reader, the head is written, and the other direction has
\* relayed already.
C28_Witness ==
    /\ ~IsConnect /\ clientBuffered /\ rpc["c2u"] = "read"
    /\ HeadWrites = {1} /\ Len(upOut) = 1
    /\ nread["u2c"] >= 1

\* ------------------------------------------------- malformed CONNECT port
\* A CONNECT request whose target has something else than a number after
\* its last colon.
BadConnect == IsConnect /\ HasColon(target) /\ ~NumericPort(target)

\* C29: a CONNECT Session with a non-numeric port goes on reading its
\* header block; it is never answered, never selects an address and never
\* attempts a connection; and once the header block has ended its next step
\* ends it with the client socket closed and nothing written.
C29_BadPortDroppedAfterHeaders ==
    /\ [](BadConnect =>
            /\ pc \in {"headers", "dispatch", "done"}
            /\ pc = "headers" => ENABLED (ReadHeader /\ pc' = "dispatch")
            /\ clientOut = <<>>
            /\ ~ConnectorEntered /\ tries = NoTries /\ ipv6 = <<>>
            /\ upSock = "none" /\ host = <<>>
            /\ pc = "done" => clientSock = "closed")
    /\ [][(BadConnect /\ pc = "dispatch") =>
              (pc' = "done" /\ clientSock' = "closed" /\ clientOut' = <<>>)]_vars

\* The header block of such a request ended at EOF after a stored header,
\* and the Session has ended.
C29_Witness ==
    /\ BadConnect /\ target = <<"example.com", ":", "abc">>
    /\ header_lines # <<>> /\ clientEOF
    /\ pc = "done" /\ clientSock = "closed" /\ clientOut = <<>>

\* ----------------------------------------------------------- header block
\* The target of the request cannot be worked out (lines 186-191, 130-135).
TargetRejected ==
    (IF IsConnect THEN ConnectTarget(target) ELSE HttpTarget(target)).err

=============================================================================
